---- MODULE Spec2Model ----
(***************************************************************************)
(* Textsy real-time messaging coordinator.                                 *)
(*                                                                         *)
(* The server side of the chat layer: the socket.io handlers of            *)
(* backend/src/services/socketService.js, the Chat and Message models they *)
(* mutate and the REST routes that change chat membership.                 *)
(*                                                                         *)
(* Every asynchronous handler is split at its awaits: what runs between    *)
(* two awaits is one action.  A handler holds the document it loaded as a  *)
(* snapshot; a Mongoose save() writes the paths the handler modified on    *)
(* its snapshot (for the unreadCounts Map: the keys it set).               *)
(*                                                                         *)
(* Writes may be rejected by the store (the Fail actions); reads and the   *)
(* unawaited presence write of updateUserOnlineStatus are taken to         *)
(* succeed.  A message content is kept as its length and its surrounding    *)
(* whitespace, which is all that validation looks at.                      *)
(*                                                                         *)
(* Of the client, one MessagingProvider is kept with the two AsyncStorage  *)
(* items it writes and the connection state of the WebSocketService.       *)
(***************************************************************************)
EXTENDS Integers, Sequences, FiniteSets, TLC

----------------------------------------------------------------------------
(* Bounds of the model *)

NumSockets == 4
MaxMsgs == 2
MaxIntents == 2
MaxInFlight == 2
MaxUnread == 2
MaxNotified == 3

----------------------------------------------------------------------------
(* The users, and the chats the store holds at start *)

Users == {"A", "B", "C"}
TokenOrder == <<"A", "B", "C">>
Sockets == 1 .. NumSockets
\* the user the credential of connection attempt s resolves to
TokenUser(s) == TokenOrder[((s - 1) % Len(TokenOrder)) + 1]

\* ids a client may name: a direct chat, a group chat, and an id of no chat
ChatIds == {"d", "g", "x"}
MsgIds == 1 .. MaxMsgs
Emojis == {"up", "heart"}
NoChat == "none"
NoUser == "none"

VARIABLES
  sockState,       \* socket -> "new" | "open" | "closed" | "rejected"
  connectedUsers,  \* userId -> socketId         (Map, partial)
  userSockets,     \* socketId -> userId         (Map, partial)
  userChats,       \* userId -> Set of chatIds   (Map, partial)
  rooms,           \* socket -> set of chat ids whose room chat:<id> it is in
  inbox,           \* socket -> sequence of the events delivered to it
  userOnline,      \* User.isOnline as persisted
  chats,           \* the Chat collection
  messages,        \* the Message collection: id -> document
  handlers,        \* the handler invocations suspended at an await
  nextMsg,         \* the next fresh Message _id
  issued,          \* number of client intents handled so far
  last,            \* the step just taken: which handler, for whom, how it ended
  client           \* the state of one MessagingProvider (src/contexts)

vars == <<sockState, connectedUsers, userSockets, userChats, rooms, inbox,
          userOnline, chats, messages, handlers, nextMsg, issued, last, client>>

registry == <<connectedUsers, userSockets, userChats>>
store == <<userOnline, chats, messages>>

----------------------------------------------------------------------------
(* Maps *)

MapSet(f, k, v) == [x \in (DOMAIN f) \cup {k} |-> IF x = k THEN v ELSE f[x]]
MapDelete(f, k) == [x \in (DOMAIN f) \ {k} |-> f[x]]
MapHas(f, k) == k \in DOMAIN f
EmptyMap == [x \in {} |-> 0]

\* a MessagingProvider just mounted over an empty AsyncStorage: no chat, no
\* message, no call in flight
NoClient ==
  [chats |-> EmptyMap, messages |-> EmptyMap,
   storedChats |-> EmptyMap, storedMessages |-> EmptyMap,
   tasks |-> {}, started |-> 0,
   socket |-> FALSE, timers |-> 0, subscribed |-> TRUE, connected |-> FALSE,
   notified |-> <<>>, afterDisconnect |-> FALSE]

----------------------------------------------------------------------------
(* Events on the wire *)

Event(ev, chat, user, msg, ids, info) ==
  [ev |-> ev, chat |-> chat, user |-> user, msg |-> msg, ids |-> ids, info |-> info]

ErrorEvent(text) == Event("error", NoChat, NoUser, 0, {}, text)

OpenSockets == {s \in Sockets : sockState[s] = "open"}

\* io.to(`chat:${chatId}`): every connection in the room
InRoom(c) == {s \in OpenSockets : c \in rooms[s]}

\* deliver event e to every connection of the set to
Deliver(inb, to, e) ==
  [s \in Sockets |-> IF s \in to /\ sockState[s] = "open" THEN Append(inb[s], e) ELSE inb[s]]

Step(op, s, u, c, outcome, m) ==
  [op |-> op, sock |-> s, user |-> u, chat |-> c, outcome |-> outcome, msg |-> m]

----------------------------------------------------------------------------
(* Presence *)

\* updateUserOnlineStatus: User.findByIdAndUpdate(userId, {isOnline})
updateUserOnlineStatus(uo, userId, isOnline) == [uo EXCEPT ![userId] = isOnline]

isUserOnline(userId) == MapHas(connectedUsers, userId)

getUserChats(userId) == IF MapHas(userChats, userId) THEN userChats[userId] ELSE {}

\* io.on('connection'), after the authentication middleware let the socket in
Connect(s) ==
  /\ sockState[s] = "new"
  /\ LET u == TokenUser(s) IN
       /\ sockState' = [sockState EXCEPT ![s] = "open"]
       /\ connectedUsers' = MapSet(connectedUsers, u, s)
       /\ userSockets' = MapSet(userSockets, s, u)
       /\ userChats' = MapSet(userChats, u, {})
       /\ userOnline' = updateUserOnlineStatus(userOnline, u, TRUE)
       /\ last' = Step("connection", s, u, NoChat, "ok", 0)
  /\ UNCHANGED <<rooms, inbox, chats, messages, handlers, nextMsg, issued, client>>

\* what a connection attempt presents as socket.handshake.auth.token: nothing, a
\* token jwt.verify accepts, a Firebase ID token of a stored user, a Firebase ID
\* token of no stored user, a token neither verifies
Credentials == {"none", "jwt", "firebase", "firebase-no-user", "invalid"}

\* io.use: next() is called without an error
Authenticates(credential) == credential \in {"jwt", "firebase"}

\* the connection is entered in the registry although the middleware refused it
RejectConnectionRegistered(s) ==
  /\ sockState[s] = "new"
  /\ sockState' = [sockState EXCEPT ![s] = "rejected"]
  /\ connectedUsers' = MapSet(connectedUsers, TokenUser(s), s)
  /\ userSockets' = MapSet(userSockets, s, TokenUser(s))
  /\ userChats' = MapSet(userChats, TokenUser(s), {})
  /\ userOnline' = updateUserOnlineStatus(userOnline, TokenUser(s), TRUE)
  /\ last' = Step("connection", s, NoUser, NoChat, "rejected", 0)
  /\ UNCHANGED <<rooms, inbox, chats, messages, handlers, nextMsg, issued, client>>

\* io.use: next(new Error('Authentication error ...')): the connection event is
\* not emitted, so no handler of the socket is ever registered
RejectConnection(s) ==
  /\ sockState[s] = "new"
  /\ sockState' = [sockState EXCEPT ![s] = "rejected"]
  /\ last' = Step("connection", s, NoUser, NoChat, "rejected", 0)
  /\ UNCHANGED <<registry, rooms, inbox, store, handlers, nextMsg, issued, client>>

\* a connection attempt: the authentication middleware, then io.on('connection')
Handshake(s, credential) ==
  IF Authenticates(credential) THEN Connect(s) ELSE RejectConnection(s)

\* the disconnect also tells the rooms the socket was in that its user left
DisconnectLeaving(s) ==
  /\ sockState[s] = "open"
  /\ LET u == TokenUser(s) IN
       /\ sockState' = [sockState EXCEPT ![s] = "closed"]
       /\ connectedUsers' = MapDelete(connectedUsers, u)
       /\ userSockets' = MapDelete(userSockets, s)
       /\ userChats' = MapDelete(userChats, u)
       /\ userOnline' = updateUserOnlineStatus(userOnline, u, FALSE)
       /\ rooms' = [rooms EXCEPT ![s] = {}]
       /\ inbox' = Deliver(Deliver(inbox, {t \in OpenSockets \ {s} : rooms[t] \cap rooms[s] # {}},
                                   Event("user-left-chat", NoChat, u, 0, {}, "")),
                           OpenSockets \ {s},
                           Event("user-disconnected", NoChat, u, 0, {}, ""))
       /\ last' = Step("disconnect", s, u, NoChat, "ok", 0)
  /\ UNCHANGED <<chats, messages, handlers, nextMsg, issued, client>>

\* socket.on('disconnect')
Disconnect(s) ==
  /\ sockState[s] = "open"
  /\ LET u == TokenUser(s) IN
       /\ sockState' = [sockState EXCEPT ![s] = "closed"]
       /\ connectedUsers' = MapDelete(connectedUsers, u)
       /\ userSockets' = MapDelete(userSockets, s)
       /\ userChats' = MapDelete(userChats, u)
       /\ userOnline' = updateUserOnlineStatus(userOnline, u, FALSE)
       /\ rooms' = [rooms EXCEPT ![s] = {}]
       \* socket.broadcast.emit: every connection but this one
       /\ inbox' = Deliver(inbox, OpenSockets \ {s},
                           Event("user-disconnected", NoChat, u, 0, {}, ""))
       /\ last' = Step("disconnect", s, u, NoChat, "ok", 0)
  /\ UNCHANGED <<chats, messages, handlers, nextMsg, issued, client>>

----------------------------------------------------------------------------
(* The Chat model (backend/src/models/User.js, second half) *)

\* no clamp: the second argument whatever the first
MaxUnclamped(a, b) == b

Max(a, b) == IF a >= b THEN a ELSE b

\* this.unreadCounts.get(userId.toString()) || 0
GetUnread(counts, userId) == IF MapHas(counts, userId) THEN counts[userId] ELSE 0

\* chatSchema.methods.updateUnreadCount, on the document in memory
updateUnreadCount(counts, userId, increment) ==
  MapSet(counts, userId, Max(0, GetUnread(counts, userId) + increment))

\* the counter is written back as it was loaded
resetUnreadCountKeep(counts, userId) == MapSet(counts, userId, GetUnread(counts, userId))

\* chatSchema.methods.resetUnreadCount, on the document in memory
resetUnreadCount(counts, userId) == MapSet(counts, userId, 0)

\* the includes() check left out: any existing chat passes
IsParticipantUnchecked(c, userId) == c \in DOMAIN chats

\* chat.participants.includes(socket.userId), chat being null for an absent id
IsParticipant(c, userId) == c \in DOMAIN chats /\ userId \in chats[c].participants

\* chat.participants.forEach(p => { if (p !== sender) chat.updateUnreadCount(p, 1) })
RECURSIVE UpdateOthers(_, _)
UpdateOthers(counts, others) ==
  IF others = {} THEN counts
  ELSE LET p == CHOOSE x \in others : TRUE
       IN UpdateOthers(updateUnreadCount(counts, p, 1), others \ {p})

\* the whole unreadCounts Map of the snapshot replaces the stored one
SaveCountsWhole(stored, snapshot, modified) == snapshot

\* chat.save(): the keys of unreadCounts set on the snapshot are written to the
\* stored document, the other keys of the stored document stay as they are
SaveCounts(stored, snapshot, modified) ==
  [k \in (DOMAIN stored) \cup modified |-> IF k \in modified THEN snapshot[k] ELSE stored[k]]

\* the increments a caller may pass: negative, zero, positive
Increments == (0 - MaxUnread - 1) .. 1

\* chat.updateUnreadCount(userId, increment) on a chat just loaded, its save()
\* resolving
CallUpdateUnreadCount(c, userId, increment) ==
  /\ c \in DOMAIN chats
  /\ GetUnread(chats[c].unreadCounts, userId) + increment <= MaxUnread
  /\ chats' = [chats EXCEPT ![c].unreadCounts =
                 SaveCounts(@, updateUnreadCount(@, userId, increment), {userId})]
  /\ last' = Step("updateUnreadCount", 0, userId, c,
                  IF GetUnread(chats[c].unreadCounts, userId) + increment < 0
                  THEN "clamped" ELSE "ok", 0)
  /\ UNCHANGED <<sockState, registry, rooms, inbox, userOnline, messages, handlers,
                 nextMsg, issued, client>>

\* chatSchema.methods.removeParticipant (group chats only)
removeParticipant(chat, userId) ==
  IF chat.type = "group"
  THEN [chat EXCEPT !.participants = @ \ {userId},
                    !.unreadCounts = MapDelete(@, userId)]
  ELSE chat

----------------------------------------------------------------------------
(* The Message model (backend/src/models/Message.js) *)

\* content: { type: String, required: true, maxlength: 1000, trim: true }
MaxContentLength == 1000

\* a content string, as far as validation can tell strings apart: text is the
\* number of characters from its first to its last non-whitespace character,
\* space the number of whitespace characters around them
Contents == [text : {0, 1, MaxContentLength, MaxContentLength + 1}, space : {0, 1}]

\* content.length
ContentLength(content) == content.text + content.space

\* the trim setter of the schema, and String.prototype.trim
Trim(content) == [content EXCEPT !.space = 0]

\* the validators of the path content, run by save() on the value the setter
\* left: required (the empty string fails it) and maxlength
ContentValidates(content) ==
  /\ ContentLength(Trim(content)) > 0
  /\ ContentLength(Trim(content)) <= MaxContentLength

\* the checks of POST /messages/chat/:chatId on the content as received:
\* !content || content.trim().length === 0, and content.length > 1000
RouteRejects(content) ==
  \/ ContentLength(Trim(content)) = 0
  \/ ContentLength(content) > MaxContentLength

\* the content of the sends that are not about content
PlainContent == [text |-> 1, space |-> 0]

NewMessage(c, sender, content) ==
  [chatId |-> c, sender |-> sender, content |-> Trim(content),
   readBy |-> [u \in Users |-> 0], reactions |-> <<>>, createdAt |-> 0]

\* timestamps: true: the insert stamps createdAt, kept here as the position of
\* the message in the order of the inserts
Timestamped(msg) == [msg EXCEPT !.createdAt = Cardinality(DOMAIN messages) + 1]

\* $addToSet: { readBy: { user, readAt: new Date() } }: the entry carries the time
\* of the call, so it equals no entry already in the array and is added
AddReadBy(msg, userId) == [msg EXCEPT !.readBy[userId] = @ + 1]

\* messageSchema.statics.findUnreadForUser
findUnreadForUser(c, userId) ==
  {m \in DOMAIN messages : /\ messages[m].chatId = c
                           /\ messages[m].sender # userId
                           /\ messages[m].readBy[userId] = 0}

\* reactions.find(r => r.user === userId): the position of the first entry of
\* the user, 0 if there is none
FindReaction(reactions, userId) ==
  IF \E i \in 1 .. Len(reactions) : reactions[i].user = userId
  THEN CHOOSE i \in 1 .. Len(reactions) :
         /\ reactions[i].user = userId
         /\ \A j \in 1 .. Len(reactions) : reactions[j].user = userId => i <= j
  ELSE 0

\* messageSchema.methods.addReaction, on the document in memory
addReaction(reactions, userId, emoji) ==
  IF FindReaction(reactions, userId) # 0
  THEN [reactions EXCEPT ![FindReaction(reactions, userId)].emoji = emoji]
  ELSE Append(reactions, [user |-> userId, emoji |-> emoji])

\* message.save() after addReaction: an entry changed in place is written at its
\* index, a pushed entry is appended to the stored array
SaveReactions(stored, snapshot, userId, emoji) ==
  IF FindReaction(snapshot, userId) # 0
  THEN [i \in 1 .. Len(stored) |->
          IF i = FindReaction(snapshot, userId)
          THEN [user |-> userId, emoji |-> emoji] ELSE stored[i]]
  ELSE Append(stored, [user |-> userId, emoji |-> emoji])

----------------------------------------------------------------------------
(* Handler invocations suspended at an await *)

Handler(op, s, c, pc, m, ids, emoji, participants, counts, reactions, content) ==
  [id |-> issued + 1, op |-> op, sock |-> s, user |-> TokenUser(s), chat |-> c,
   pc |-> pc, msg |-> m, ids |-> ids, emoji |-> emoji,
   participants |-> participants, counts |-> counts, reactions |-> reactions,
   content |-> content]

CanIssue(s) == sockState[s] = "open" /\ issued < MaxIntents

CanSuspend == Cardinality(handlers) < MaxInFlight

Quiescent == handlers = {}

\* the message ids a client names: those handed out so far and one not yet in use
KnownMsgIds == {m \in MsgIds : m <= nextMsg}

----------------------------------------------------------------------------
(* Room membership *)

\* socket.on('join-chat')
JoinChat(s, c) ==
  /\ CanIssue(s)
  /\ issued' = issued + 1
  /\ LET u == TokenUser(s) IN
       IF c \notin DOMAIN chats THEN
         /\ inbox' = Deliver(inbox, {s}, ErrorEvent("Chat not found"))
         /\ last' = Step("join-chat", s, u, c, "notfound", 0)
         /\ UNCHANGED <<rooms, userChats>>
       ELSE IF ~IsParticipant(c, u) THEN
         /\ inbox' = Deliver(inbox, {s}, ErrorEvent("Access denied to this chat"))
         /\ last' = Step("join-chat", s, u, c, "denied", 0)
         /\ UNCHANGED <<rooms, userChats>>
       ELSE IF ~MapHas(userChats, u) THEN
         \* userChats.get(socket.userId) is undefined: .add throws after socket.join
         /\ rooms' = [rooms EXCEPT ![s] = @ \cup {c}]
         /\ inbox' = Deliver(inbox, {s}, ErrorEvent("Failed to join chat"))
         /\ last' = Step("join-chat", s, u, c, "error", 0)
         /\ UNCHANGED userChats
       ELSE
         /\ rooms' = [rooms EXCEPT ![s] = @ \cup {c}]
         /\ userChats' = [userChats EXCEPT ![u] = @ \cup {c}]
         /\ inbox' = Deliver(inbox, InRoom(c) \ {s},
                             Event("user-joined-chat", c, u, 0, {}, ""))
         /\ last' = Step("join-chat", s, u, c, "ok", 0)
  /\ UNCHANGED <<sockState, connectedUsers, userSockets, store, handlers, nextMsg, client>>

\* socket.on('leave-chat')
LeaveChat(s, c) ==
  /\ CanIssue(s)
  /\ issued' = issued + 1
  /\ LET u == TokenUser(s) IN
       /\ rooms' = [rooms EXCEPT ![s] = @ \ {c}]
       /\ userChats' = IF MapHas(userChats, u)
                       THEN [userChats EXCEPT ![u] = @ \ {c}] ELSE userChats
       /\ inbox' = Deliver(inbox, InRoom(c) \ {s},
                           Event("user-left-chat", c, u, 0, {}, ""))
       /\ last' = Step("leave-chat", s, u, c, "ok", 0)
  /\ UNCHANGED <<sockState, connectedUsers, userSockets, store, handlers, nextMsg, client>>

\* the relay reaches the whole room, the sender's connection included
TypingToAll(s, c, isTyping) ==
  /\ CanIssue(s)
  /\ issued' = issued + 1
  /\ LET u == TokenUser(s) IN
       IF ~IsParticipant(c, u) THEN
         /\ last' = Step("typing", s, u, c,
                         IF c \in DOMAIN chats THEN "denied" ELSE "notfound", 0)
         /\ UNCHANGED inbox
       ELSE
         /\ inbox' = Deliver(inbox, InRoom(c),
                             Event("user-typing", c, u, 0, {}, IF isTyping THEN "on" ELSE "off"))
         /\ last' = Step("typing", s, u, c, "ok", 0)
  /\ UNCHANGED <<sockState, registry, rooms, store, handlers, nextMsg, client>>

\* socket.on('typing'): Chat.findById resolves, then the relay to the room
Typing(s, c, isTyping) ==
  /\ CanIssue(s)
  /\ issued' = issued + 1
  /\ LET u == TokenUser(s) IN
       IF ~IsParticipant(c, u) THEN
         \* return, with no event to anybody
         /\ last' = Step("typing", s, u, c,
                         IF c \in DOMAIN chats THEN "denied" ELSE "notfound", 0)
         /\ UNCHANGED inbox
       ELSE
         \* socket.to(room): every connection in the room but this one
         /\ inbox' = Deliver(inbox, InRoom(c) \ {s},
                             Event("user-typing", c, u, 0, {}, IF isTyping THEN "on" ELSE "off"))
         /\ last' = Step("typing", s, u, c, "ok", 0)
  /\ UNCHANGED <<sockState, registry, rooms, store, handlers, nextMsg, client>>

\* POST /:chatId/leave and DELETE /:chatId/participants/:participantId
\* (routes/chats.js): caller `by` removes participant p from chat c
RemoveParticipant(by, c, p) ==
  /\ issued < MaxIntents
  /\ issued' = issued + 1
  /\ IsParticipant(c, by)                       \* checkChatParticipant
  /\ chats[c].type # "direct"
  /\ chats[c].createdBy = by \/ p = by
  /\ chats' = [chats EXCEPT ![c] = removeParticipant(@, p)]
  /\ last' = Step("remove-participant", 0, by, c, "ok", 0)
  /\ UNCHANGED <<sockState, registry, rooms, inbox, userOnline, messages, handlers,
                 nextMsg, client>>

\* chatSchema.methods.addParticipant (group chats only)
addParticipant(chat, userId) ==
  IF chat.type = "group" /\ userId \notin chat.participants
  THEN [chat EXCEPT !.participants = @ \cup {userId},
                    !.unreadCounts = MapSet(@, userId, 0)]
  ELSE chat

\* POST /:chatId/participants (routes/chats.js): participant `by` adds user p
AddParticipant(by, c, p) ==
  /\ issued < MaxIntents
  /\ issued' = issued + 1
  /\ IsParticipant(c, by)                       \* checkChatParticipant
  /\ chats[c].type # "direct"
  /\ p \notin chats[c].participants
  /\ chats' = [chats EXCEPT ![c] = addParticipant(@, p)]
  /\ last' = Step("add-participant", 0, by, c, "ok", 0)
  /\ UNCHANGED <<sockState, registry, rooms, inbox, userOnline, messages, handlers,
                 nextMsg, client>>

----------------------------------------------------------------------------
(* Chat creation: POST /chats (routes/chats.js) *)

\* the ids of the chats created after start, in the order they are handed out
NewChatIds == <<"n1", "n2", "n3">>

CreatedChats == {c \in DOMAIN chats : \E i \in 1 .. Len(NewChatIds) : NewChatIds[i] = c}

Range(seq) == {seq[i] : i \in 1 .. Len(seq)}

\* the participantIds arrays a client sends
ParticipantLists == {<<>>} \cup {<<u>> : u \in Users} \cup {<<u, v>> : u, v \in Users}

ChatTypes == {"direct", "group"}

\* if (!participantIds.includes(userId)) participantIds.push(userId)
WithCaller(participantIds, userId) ==
  IF userId \in Range(participantIds) THEN participantIds
  ELSE Append(participantIds, userId)

\* chatSchema.statics.findDirectChat: {type: 'direct', participants: {$all: [u1, u2]}}
findDirectChat(userId1, userId2) ==
  {c \in DOMAIN chats : chats[c].type = "direct" /\ {userId1, userId2} \subseteq chats[c].participants}

\* new Chat({type, participants, metadata: {createdBy}}) of POST /chats: no
\* lastMessage, and unreadCounts is the schema default, an empty Map
NewChat(type, participants, createdBy) ==
  [type |-> type, participants |-> participants, createdBy |-> createdBy,
   lastMessage |-> 0, unreadCounts |-> EmptyMap]

\* POST /chats run from its arrival to its response with no other request in
\* between.  The stored chat keeps the participants array; the model keeps the
\* set of its elements, which is what includes() and the participant checks look at
CreateChat(by, participantIds, type) ==
  /\ issued < MaxIntents
  /\ issued' = issued + 1
  /\ Cardinality(CreatedChats) < Len(NewChatIds)
  /\ LET list == WithCaller(participantIds, by)
         fresh == NewChatIds[Cardinality(CreatedChats) + 1]
     IN IF Len(participantIds) = 0 THEN
          \* 400 Participant IDs are required
          /\ last' = Step("create-chat", 0, by, NoChat, "invalid", 0)
          /\ UNCHANGED chats
        ELSE IF type = "direct" /\ Len(list) # 2 THEN
          \* 400 Direct chats must have exactly 2 participants
          /\ last' = Step("create-chat", 0, by, NoChat, "invalid", 0)
          /\ UNCHANGED chats
        ELSE IF type = "direct" /\ findDirectChat(list[1], list[2]) # {} THEN
          /\ last' = Step("create-chat", 0, by,
                          CHOOSE c \in findDirectChat(list[1], list[2]) : TRUE, "exists", 0)
          /\ UNCHANGED chats
        ELSE
          \* new Chat({...}), chat.save(): the pre-save hook sees an array of length 2
          /\ chats' = MapSet(chats, fresh, NewChat(type, Range(list), by))
          /\ last' = Step("create-chat", 0, by, fresh, "created", 0)
  /\ UNCHANGED <<sockState, registry, rooms, inbox, userOnline, messages, handlers,
                 nextMsg, client>>

\* POST /chats split at its awaits, for requests that overlap.  The request in
\* flight holds what the route holds: the type (in the name of the operation),
\* the participants and the caller.
CreateRequest(by, type, participants, pc) ==
  [id |-> issued + 1, op |-> IF type = "direct" THEN "create-direct" ELSE "create-group",
   sock |-> 0, user |-> by, chat |-> NoChat, pc |-> pc, msg |-> 0, ids |-> {},
   emoji |-> "", participants |-> participants, counts |-> EmptyMap,
   reactions |-> <<>>, content |-> PlainContent]

\* the request arrives: the two 400 checks, then Chat.findDirectChat is called
\* (direct) or new Chat and chat.save() are (group)
CreateChatArrives(by, participantIds, type) ==
  /\ issued < MaxIntents
  /\ issued' = issued + 1
  /\ LET list == WithCaller(participantIds, by)
     IN IF Len(participantIds) = 0 \/ (type = "direct" /\ Len(list) # 2) THEN
          /\ last' = Step("create-chat", 0, by, NoChat, "invalid", 0)
          /\ UNCHANGED handlers
        ELSE
          /\ CanSuspend
          /\ handlers' = handlers \cup
               {CreateRequest(by, type, Range(list),
                              IF type = "direct" THEN "find" ELSE "save")}
          /\ last' = Step("create-chat", 0, by, NoChat, "accepted", 0)
  /\ UNCHANGED <<sockState, registry, rooms, inbox, store, nextMsg, client>>

\* await Chat.findDirectChat resolves: the existing chat is returned, or new
\* Chat is built and chat.save() is called
CreateChatFind(h) ==
  /\ h.op = "create-direct" /\ h.pc = "find"
  /\ LET first == CHOOSE u \in h.participants : TRUE
         second == CHOOSE u \in h.participants : h.participants = {first, u}
         found == findDirectChat(first, second)
     IN IF found # {} THEN
          /\ handlers' = handlers \ {h}
          /\ last' = Step("create-chat", 0, h.user, CHOOSE c \in found : TRUE, "exists", 0)
        ELSE
          /\ handlers' = (handlers \ {h}) \cup {[h EXCEPT !.pc = "save"]}
          /\ last' = Step("create-chat", 0, h.user, NoChat, "none", 0)
  /\ UNCHANGED <<sockState, registry, rooms, inbox, store, nextMsg, issued, client>>

\* await chat.save() resolves: the chat is inserted, 201
CreateChatSave(h) ==
  /\ h.op \in {"create-direct", "create-group"} /\ h.pc = "save"
  /\ Cardinality(CreatedChats) < Len(NewChatIds)
  /\ LET fresh == NewChatIds[Cardinality(CreatedChats) + 1]
     IN /\ chats' = MapSet(chats, fresh,
                           NewChat(IF h.op = "create-direct" THEN "direct" ELSE "group",
                                   h.participants, h.user))
        /\ last' = Step("create-chat", 0, h.user, fresh, "created", 0)
  /\ handlers' = handlers \ {h}
  /\ UNCHANGED <<sockState, registry, rooms, inbox, userOnline, messages, nextMsg,
                 issued, client>>

----------------------------------------------------------------------------
(* Message pipeline: socket.on('send-message') *)

\* the event arrives with content, Chat.findById resolves, new Message({...}) is
\* built
SendMessageWith(s, c, content) ==
  /\ CanIssue(s)
  /\ issued' = issued + 1
  /\ LET u == TokenUser(s) IN
       IF ~IsParticipant(c, u) THEN
         /\ inbox' = Deliver(inbox, {s}, ErrorEvent("Access denied to this chat"))
         /\ last' = Step("send-message", s, u, c,
                         IF c \in DOMAIN chats THEN "denied" ELSE "notfound", 0)
         /\ UNCHANGED <<handlers, nextMsg>>
       ELSE
         /\ CanSuspend
         /\ nextMsg <= MaxMsgs
         /\ handlers' = handlers \cup
              {Handler("send-message", s, c, "saveMessage", nextMsg, {}, "",
                       chats[c].participants, chats[c].unreadCounts, <<>>, content)}
         /\ nextMsg' = nextMsg + 1
         /\ last' = Step("send-message", s, u, c, "accepted", nextMsg)
         /\ UNCHANGED inbox
  /\ UNCHANGED <<sockState, registry, rooms, store, client>>

\* a send-message whose content passes validation
SendMessage(s, c) == SendMessageWith(s, c, PlainContent)

\* await message.save(): validation passes and the write resolves
SendSaveMessage(h) ==
  /\ h.op = "send-message" /\ h.pc = "saveMessage"
  /\ ContentValidates(h.content)
  /\ messages' = MapSet(messages, h.msg,
                        Timestamped(NewMessage(h.chat, h.user, h.content)))
  /\ handlers' = (handlers \ {h}) \cup {[h EXCEPT !.pc = "saveChat"]}
  /\ last' = Step("send-message", h.sock, h.user, h.chat, "saved", h.msg)
  /\ UNCHANGED <<sockState, registry, rooms, inbox, userOnline, chats, nextMsg, issued,
                 client>>

\* the room is told of the message although its save was rejected
SendSaveMessageFailFanOut(h) ==
  /\ h.op = "send-message" /\ h.pc = "saveMessage"
  /\ handlers' = handlers \ {h}
  /\ inbox' = Deliver(Deliver(inbox, InRoom(h.chat),
                              Event("new-message", h.chat, h.user, h.msg, {}, "")),
                      {h.sock}, ErrorEvent("Failed to send message"))
  /\ last' = Step("send-message", h.sock, h.user, h.chat, "failed-message", h.msg)
  /\ UNCHANGED <<sockState, registry, rooms, store, nextMsg, issued, client>>

\* await message.save() rejects: catch, socket.emit('error')
SendSaveMessageFail(h) ==
  /\ h.op = "send-message" /\ h.pc = "saveMessage"
  /\ handlers' = handlers \ {h}
  /\ inbox' = Deliver(inbox, {h.sock}, ErrorEvent("Failed to send message"))
  /\ last' = Step("send-message", h.sock, h.user, h.chat, "failed-message", h.msg)
  /\ UNCHANGED <<sockState, registry, rooms, store, nextMsg, issued, client>>

\* await message.save() rejects with a ValidationError before any write: catch,
\* socket.emit('error')
SendValidationFail(h) ==
  /\ h.op = "send-message" /\ h.pc = "saveMessage"
  /\ ~ContentValidates(h.content)
  /\ handlers' = handlers \ {h}
  /\ inbox' = Deliver(inbox, {h.sock}, ErrorEvent("Failed to send message"))
  /\ last' = Step("send-message", h.sock, h.user, h.chat, "invalid", h.msg)
  /\ UNCHANGED <<sockState, registry, rooms, store, nextMsg, issued, client>>

\* lastMessage and the counters are set on the loaded chat, await chat.save() resolves
SendSaveChat(h) ==
  /\ h.op = "send-message" /\ h.pc = "saveChat"
  /\ LET others == h.participants \ {h.user}
         counts == UpdateOthers(h.counts, others)
     IN chats' = [chats EXCEPT ![h.chat].lastMessage = h.msg,
                               ![h.chat].unreadCounts = SaveCounts(@, counts, others)]
  /\ handlers' = (handlers \ {h}) \cup {[h EXCEPT !.pc = "populate"]}
  /\ last' = Step("send-message", h.sock, h.user, h.chat, "chat-saved", h.msg)
  /\ UNCHANGED <<sockState, registry, rooms, inbox, userOnline, messages, nextMsg,
                 issued, client>>

\* await chat.save() rejects with nothing written: catch, socket.emit('error')
SendSaveChatFail(h) ==
  /\ h.op = "send-message" /\ h.pc = "saveChat"
  /\ handlers' = handlers \ {h}
  /\ inbox' = Deliver(inbox, {h.sock}, ErrorEvent("Failed to send message"))
  /\ last' = Step("send-message", h.sock, h.user, h.chat, "failed-chat", h.msg)
  /\ UNCHANGED <<sockState, registry, rooms, store, nextMsg, issued, client>>

\* await message.populate() resolves: io.to(room).emit('new-message') and
\* socket.emit('message-delivered')
SendBroadcast(h) ==
  /\ h.op = "send-message" /\ h.pc = "populate"
  /\ handlers' = handlers \ {h}
  /\ inbox' = Deliver(Deliver(inbox, InRoom(h.chat),
                              Event("new-message", h.chat, h.user, h.msg, {}, "")),
                      {h.sock}, Event("message-delivered", h.chat, NoUser, h.msg, {}, ""))
  /\ last' = Step("send-message", h.sock, h.user, h.chat, "ok", h.msg)
  /\ UNCHANGED <<sockState, registry, rooms, store, nextMsg, issued, client>>

\* the chat was written (by the save() updateUnreadCount itself starts) and the
\* awaited chat.save() or message.populate() rejects: catch, socket.emit('error')
SendPopulateFail(h) ==
  /\ h.op = "send-message" /\ h.pc = "populate"
  /\ handlers' = handlers \ {h}
  /\ inbox' = Deliver(inbox, {h.sock}, ErrorEvent("Failed to send message"))
  /\ last' = Step("send-message", h.sock, h.user, h.chat, "failed-populate", h.msg)
  /\ UNCHANGED <<sockState, registry, rooms, store, nextMsg, issued, client>>

----------------------------------------------------------------------------
(* Read receipts: socket.on('mark-read') *)

\* the event arrives and Chat.findById resolves
MarkRead(s, c, ids) ==
  /\ CanIssue(s)
  /\ issued' = issued + 1
  /\ LET u == TokenUser(s) IN
       IF ~IsParticipant(c, u) THEN
         \* return, with no event to anybody
         /\ last' = Step("mark-read", s, u, c,
                         IF c \in DOMAIN chats THEN "denied" ELSE "notfound", 0)
         /\ UNCHANGED handlers
       ELSE
         /\ CanSuspend
         /\ handlers' = handlers \cup
              {Handler("mark-read", s, c, "updateMany", 0, ids, "",
                       chats[c].participants, chats[c].unreadCounts, <<>>, PlainContent)}
         /\ last' = Step("mark-read", s, u, c, "accepted", 0)
  /\ UNCHANGED <<sockState, registry, rooms, inbox, store, nextMsg, client>>

\* await Message.updateMany({_id: {$in: messageIds}, chatId}, {$addToSet: {readBy}})
MarkUpdateMany(h) ==
  /\ h.op = "mark-read" /\ h.pc = "updateMany"
  /\ messages' = [m \in DOMAIN messages |->
                    IF m \in h.ids /\ messages[m].chatId = h.chat
                    THEN AddReadBy(messages[m], h.user) ELSE messages[m]]
  /\ handlers' = (handlers \ {h}) \cup {[h EXCEPT !.pc = "save"]}
  /\ last' = Step("mark-read", h.sock, h.user, h.chat, "updated", 0)
  /\ UNCHANGED <<sockState, registry, rooms, inbox, userOnline, chats, nextMsg, issued,
                 client>>

\* chat.resetUnreadCount, await chat.save() resolves, socket.to(room).emit('messages-read')
MarkSave(h) ==
  /\ h.op = "mark-read" /\ h.pc = "save"
  /\ LET counts == resetUnreadCount(h.counts, h.user)
     IN chats' = [chats EXCEPT ![h.chat].unreadCounts = SaveCounts(@, counts, {h.user})]
  /\ handlers' = handlers \ {h}
  /\ inbox' = Deliver(inbox, InRoom(h.chat) \ {h.sock},
                      Event("messages-read", h.chat, h.user, 0, h.ids, ""))
  /\ last' = Step("mark-read", h.sock, h.user, h.chat, "ok", 0)
  /\ UNCHANGED <<sockState, registry, rooms, userOnline, messages, nextMsg, issued, client>>

\* updateMany or chat.save() rejects: catch, console.error only
MarkFail(h) ==
  /\ h.op = "mark-read"
  /\ handlers' = handlers \ {h}
  /\ last' = Step("mark-read", h.sock, h.user, h.chat, "failed", 0)
  /\ UNCHANGED <<sockState, registry, rooms, inbox, store, nextMsg, issued, client>>

----------------------------------------------------------------------------
(* Reactions: socket.on('react-to-message') *)

\* the event arrives, Message.findById and Chat.findById resolve
ReactToMessage(s, m, emoji) ==
  /\ CanIssue(s)
  /\ issued' = issued + 1
  /\ LET u == TokenUser(s) IN
       IF m \notin DOMAIN messages THEN
         /\ inbox' = Deliver(inbox, {s}, ErrorEvent("Message not found"))
         /\ last' = Step("react-to-message", s, u, NoChat, "notfound", m)
         /\ UNCHANGED handlers
       ELSE IF ~IsParticipant(messages[m].chatId, u) THEN
         /\ inbox' = Deliver(inbox, {s}, ErrorEvent("Access denied to this chat"))
         /\ last' = Step("react-to-message", s, u, messages[m].chatId, "denied", m)
         /\ UNCHANGED handlers
       ELSE
         /\ CanSuspend
         /\ handlers' = handlers \cup
              {Handler("react-to-message", s, messages[m].chatId, "save", m, {}, emoji,
                       {}, EmptyMap, messages[m].reactions, PlainContent)}
         /\ last' = Step("react-to-message", s, u, messages[m].chatId, "accepted", m)
         /\ UNCHANGED inbox
  /\ UNCHANGED <<sockState, registry, rooms, store, nextMsg, client>>

\* await message.addReaction() resolves, io.to(room).emit('message-reaction')
ReactSave(h) ==
  /\ h.op = "react-to-message" /\ h.pc = "save"
  /\ messages' = [messages EXCEPT ![h.msg].reactions =
                    SaveReactions(@, h.reactions, h.user, h.emoji)]
  /\ handlers' = handlers \ {h}
  /\ inbox' = Deliver(inbox, InRoom(h.chat),
                      Event("message-reaction", h.chat, h.user, h.msg, {}, h.emoji))
  /\ last' = Step("react-to-message", h.sock, h.user, h.chat, "ok", h.msg)
  /\ UNCHANGED <<sockState, registry, rooms, userOnline, chats, nextMsg, issued, client>>

\* await message.addReaction() rejects: catch, socket.emit('error')
ReactSaveFail(h) ==
  /\ h.op = "react-to-message" /\ h.pc = "save"
  /\ handlers' = handlers \ {h}
  /\ inbox' = Deliver(inbox, {h.sock}, ErrorEvent("Failed to add reaction"))
  /\ last' = Step("react-to-message", h.sock, h.user, h.chat, "failed", h.msg)
  /\ UNCHANGED <<sockState, registry, rooms, store, nextMsg, issued, client>>

----------------------------------------------------------------------------
(* The client: one MessagingProvider (src/contexts/MessagingContext.tsx) over the
   MessageStorageService (src/services/MessageStorageService.ts).

   chats and messages are the React state, storedChats and storedMessages the
   two AsyncStorage items.  A call of the provider is split at its awaits and
   kept in tasks while it is suspended; the array it will hand to saveChats is
   computed from the chats of its closure, so the task carries it from the
   start.  AsyncStorage is taken to succeed.

   Of the WebSocketService (src/services/WebSocketService.ts): socket says
   whether this.socket is not null, timers counts the connect() calls whose
   setTimeout has not fired, subscribed says whether the provider's
   handleConnectionChange is in connectionHandlers, connected is the provider's
   isConnected state, notified the values the handler was called with, and
   afterDisconnect says that disconnect() was called and connect() has not been
   since. *)

server == <<sockState, registry, rooms, inbox, store, handlers, nextMsg, issued>>

ClientUnread(c) == client.chats[c].unreadCount

\* the chats of the render whose handleWebSocketMessage was registered by the
\* effect of the mount: useState<Chat[]>([])
MountChats == EmptyMap

\* chats.map(chat => chat.id === chatId ? f(chat) : chat)
MapChat(list, c, row) == IF c \in DOMAIN list THEN [list EXCEPT ![c] = row] ELSE list

ClientCanStart == client.started < MaxIntents /\ Cardinality(client.tasks) < MaxInFlight

ClientTask(op, c, m, pc, toSave) ==
  [id |-> client.started + 1, op |-> op, chat |-> c, msg |-> m, pc |-> pc,
   chats |-> toSave, list |-> <<>>, all |-> EmptyMap]

\* prev[chatId] || []
MessagesIn(all, c) == IF c \in DOMAIN all THEN all[c] ELSE <<>>

\* createChat: the new chat is put in both states, then saveChats([newChat,
\* ...chats]) is called
createChat(c) ==
  /\ ClientCanStart
  /\ c \notin DOMAIN client.chats
  /\ LET newChat == [unreadCount |-> 0, lastMessage |-> 0]
     IN client' = [client EXCEPT
          !.chats = MapSet(@, c, newChat),
          !.messages = MapSet(@, c, <<>>),
          !.started = @ + 1,
          !.tasks = @ \cup {ClientTask("createChat", c, 0, "saveChats",
                                       MapSet(client.chats, c, newChat))}]
  /\ last' = Step("createChat", 0, NoUser, c, "ok", 0)
  /\ UNCHANGED server

\* simulateIncomingMessage -> handleWebSocketMessage -> handleIncomingMessage, the
\* one of the mount: the message goes to both states, then addMessage is called
handleIncomingMessage(c) ==
  /\ ClientCanStart
  /\ LET m == client.started + 1
         row(list) == [unreadCount |-> list[c].unreadCount + 1, lastMessage |-> m]
     IN client' = [client EXCEPT
          !.chats = MapChat(@, c, row(@)),
          !.messages = MapSet(@, c, Append(MessagesIn(@, c), m)),
          !.started = @ + 1,
          !.tasks = @ \cup {ClientTask("handleIncomingMessage", c, m, "load",
                                       MapChat(MountChats, c, row(MountChats)))}]
  /\ last' = Step("handleIncomingMessage", 0, NoUser, c,
                  IF c \in DOMAIN client.chats THEN "ok" ELSE "unknown", 0)
  /\ UNCHANGED server

\* sendMessage of the current render: the message goes to both states, then
\* addMessage is called
sendMessage(c) ==
  /\ ClientCanStart
  /\ LET m == client.started + 1
         row(list) == [list[c] EXCEPT !.lastMessage = m]
     IN client' = [client EXCEPT
          !.chats = MapChat(@, c, row(@)),
          !.messages = MapSet(@, c, Append(MessagesIn(@, c), m)),
          !.started = @ + 1,
          !.tasks = @ \cup {ClientTask("sendMessage", c, m, "load",
                                       MapChat(client.chats, c, row(client.chats)))}]
  /\ last' = Step("sendMessage", 0, NoUser, c,
                  IF c \in DOMAIN client.chats THEN "ok" ELSE "unknown", 0)
  /\ UNCHANGED server

\* markAsRead(chatId, messageIds) of the current render with n ids: n is taken off
\* the unreadCount of the chat, then markMessagesAsRead is called
markAsRead(c, n) ==
  /\ ClientCanStart
  /\ LET row(list) == [list[c] EXCEPT !.unreadCount = Max(0, @ - n)]
     IN client' = [client EXCEPT
          !.chats = MapChat(@, c, row(@)),
          !.started = @ + 1,
          !.tasks = @ \cup {ClientTask("markAsRead", c, 0, "load",
                                       MapChat(client.chats, c, row(client.chats)))}]
  /\ last' = Step("markAsRead", 0, NoUser, c,
                  IF c \notin DOMAIN client.chats THEN "unknown"
                  ELSE IF n > ClientUnread(c) THEN "clamped" ELSE "ok", 0)
  /\ UNCHANGED server

\* loadMessages(chatId) of addMessage and markMessagesAsRead resolves: the
\* message is pushed (addMessage), then saveMessages calls loadAllMessages
StorageLoad(t) ==
  /\ t \in client.tasks /\ t.pc = "load"
  /\ LET loaded == MessagesIn(client.storedMessages, t.chat)
         list == IF t.op = "markAsRead" THEN loaded ELSE Append(loaded, t.msg)
     IN client' = [client EXCEPT
          !.tasks = (@ \ {t}) \cup {[t EXCEPT !.pc = "reload", !.list = list]}]
  /\ last' = Step(t.op, 0, NoUser, t.chat, "loaded", t.msg)
  /\ UNCHANGED server

\* loadAllMessages of saveMessages resolves: allMessages[chatId] = messages, then
\* AsyncStorage.setItem is called with the whole object
StorageReload(t) ==
  /\ t \in client.tasks /\ t.pc = "reload"
  /\ client' = [client EXCEPT
       !.tasks = (@ \ {t}) \cup
                 {[t EXCEPT !.pc = "write",
                            !.all = MapSet(client.storedMessages, t.chat, t.list)]}]
  /\ last' = Step(t.op, 0, NoUser, t.chat, "reloaded", t.msg)
  /\ UNCHANGED server

\* setItem(MESSAGES_KEY) resolves; createChat is done, the others call saveChats
StorageWrite(t) ==
  /\ t \in client.tasks /\ t.pc = "write"
  /\ client' = [client EXCEPT
       !.storedMessages = t.all,
       !.tasks = IF t.op = "createChat" THEN @ \ {t}
                 ELSE (@ \ {t}) \cup {[t EXCEPT !.pc = "saveChats"]}]
  /\ last' = Step(t.op, 0, NoUser, t.chat,
                  IF t.op = "createChat" THEN "done" ELSE "written", t.msg)
  /\ UNCHANGED server

\* setItem(CHATS_KEY) of saveChats resolves; createChat goes on to
\* saveMessages(chatId, []), the others are done (what they send over the
\* WebSocketService changes nothing here)
StorageSaveChats(t) ==
  /\ t \in client.tasks /\ t.pc = "saveChats"
  /\ client' = [client EXCEPT
       !.storedChats = t.chats,
       !.tasks = IF t.op = "createChat"
                 THEN (@ \ {t}) \cup {[t EXCEPT !.pc = "reload"]}
                 ELSE @ \ {t}]
  /\ last' = Step(t.op, 0, NoUser, t.chat,
                  IF t.op = "createChat" THEN "chats-saved" ELSE "done", t.msg)
  /\ UNCHANGED server

\* notifyConnectionChange(value): the provider's handler, if it is still
\* subscribed, is called and sets isConnected
Notify(cl, value) ==
  IF cl.subscribed
  THEN [cl EXCEPT !.notified = Append(@, value), !.connected = value]
  ELSE cl

\* WebSocketService.connect(): the promise is created and the timer set
connect ==
  /\ client.timers < MaxInFlight
  /\ client' = [client EXCEPT !.timers = @ + 1, !.afterDisconnect = FALSE]
  /\ last' = Step("connect", 0, NoUser, NoChat, "pending", 0)
  /\ UNCHANGED server

\* the timer set by connect() fires: this.socket = {}, notifyConnectionChange(true),
\* resolve()
ConnectTimer ==
  /\ client.timers > 0
  /\ Len(client.notified) < MaxNotified
  /\ client' = Notify([client EXCEPT !.timers = @ - 1, !.socket = TRUE], TRUE)
  /\ last' = Step("connect", 0, NoUser, NoChat, "ok", 0)
  /\ UNCHANGED server

\* WebSocketService.disconnect(): only if this.socket is set, it is set to null
\* and notifyConnectionChange(false) runs
disconnect ==
  /\ Len(client.notified) < MaxNotified
  /\ client' = IF client.socket
               THEN Notify([client EXCEPT !.socket = FALSE, !.afterDisconnect = TRUE], FALSE)
               ELSE [client EXCEPT !.afterDisconnect = TRUE]
  /\ last' = Step("disconnect", 0, NoUser, NoChat,
                  IF client.socket THEN "ok" ELSE "no-socket", 0)
  /\ UNCHANGED server

\* the cleanup of the provider's effect: unsubscribeMessage(),
\* unsubscribeConnection(), webSocketService.disconnect()
Unmount ==
  /\ client.subscribed
  /\ client' = [client EXCEPT !.subscribed = FALSE, !.socket = FALSE,
                              !.afterDisconnect = TRUE]
  /\ last' = Step("unmount", 0, NoUser, NoChat,
                  IF client.socket THEN "ok" ELSE "no-socket", 0)
  /\ UNCHANGED server

StorageSteps ==
  \/ \E t \in client.tasks : StorageLoad(t)
  \/ \E t \in client.tasks : StorageReload(t)
  \/ \E t \in client.tasks : StorageWrite(t)
  \/ \E t \in client.tasks : StorageSaveChats(t)

----------------------------------------------------------------------------
(* The store at start: a direct chat of A and B, a group chat of A, B, C, both
   created by A through POST /chats, no message, nobody connected *)

Init ==
  /\ sockState = [s \in Sockets |-> "new"]
  /\ connectedUsers = EmptyMap
  /\ userSockets = EmptyMap
  /\ userChats = EmptyMap
  /\ rooms = [s \in Sockets |-> {}]
  /\ inbox = [s \in Sockets |-> <<>>]
  /\ userOnline = [u \in Users |-> FALSE]
  /\ chats = [c \in {"d", "g"} |->
                IF c = "d" THEN NewChat("direct", {"A", "B"}, "A")
                           ELSE NewChat("group", {"A", "B", "C"}, "A")]
  /\ messages = EmptyMap
  /\ handlers = {}
  /\ nextMsg = 1
  /\ issued = 0
  /\ client = NoClient
  /\ last = Step("init", 0, NoUser, NoChat, "ok", 0)

----------------------------------------------------------------------------
(* Connections and disconnections only *)

NextPresence ==
  \/ \E s \in Sockets : Connect(s)
  \/ \E s \in Sockets : Disconnect(s)

SpecPresence == Init /\ [][NextPresence]_vars

\* connection attempts with any credential, and join-chat and leave-chat as the
\* events a connection may send
NextHandshake ==
  \/ \E s \in Sockets, credential \in Credentials : Handshake(s, credential)
  \/ \E s \in Sockets, c \in DOMAIN chats : JoinChat(s, c)
  \/ \E s \in Sockets, c \in DOMAIN chats : LeaveChat(s, c)

SpecHandshake == Init /\ [][NextHandshake]_vars

----------------------------------------------------------------------------
(* The state after the first connection of every user (sockets 1, 2, 3 of A, B,
   C, connected in that order, reached by SpecPresence): where the chat
   behaviours start *)

FirstDevices == {s \in Sockets : s <= Len(TokenOrder)}

InitChat ==
  /\ sockState = [s \in Sockets |-> IF s \in FirstDevices THEN "open" ELSE "new"]
  /\ connectedUsers = [u \in Users |-> CHOOSE s \in FirstDevices : TokenUser(s) = u]
  /\ userSockets = [s \in FirstDevices |-> TokenUser(s)]
  /\ userChats = [u \in Users |-> {}]
  /\ rooms = [s \in Sockets |-> {}]
  /\ inbox = [s \in Sockets |-> <<>>]
  /\ userOnline = [u \in Users |-> TRUE]
  /\ chats = [c \in {"d", "g"} |->
                IF c = "d" THEN NewChat("direct", {"A", "B"}, "A")
                           ELSE NewChat("group", {"A", "B", "C"}, "A")]
  /\ messages = EmptyMap
  /\ handlers = {}
  /\ nextMsg = 1
  /\ issued = 0
  /\ client = NoClient
  /\ last = Step("connection", Len(TokenOrder), TokenUser(Len(TokenOrder)), NoChat, "ok", 0)

\* InitChat after sockets 1 and 2 (A and B) joined the room of the direct chat, in
\* that order
InitJoined ==
  /\ sockState = [s \in Sockets |-> IF s \in FirstDevices THEN "open" ELSE "new"]
  /\ connectedUsers = [u \in Users |-> CHOOSE s \in FirstDevices : TokenUser(s) = u]
  /\ userSockets = [s \in FirstDevices |-> TokenUser(s)]
  /\ userChats = [u \in Users |-> IF u \in {"A", "B"} THEN {"d"} ELSE {}]
  /\ rooms = [s \in Sockets |-> IF s \in {1, 2} THEN {"d"} ELSE {}]
  /\ inbox = [s \in Sockets |->
                IF s = 1 THEN <<Event("user-joined-chat", "d", "B", 0, {}, "")>> ELSE <<>>]
  /\ userOnline = [u \in Users |-> TRUE]
  /\ chats = [c \in {"d", "g"} |->
                IF c = "d" THEN NewChat("direct", {"A", "B"}, "A")
                           ELSE NewChat("group", {"A", "B", "C"}, "A")]
  /\ messages = EmptyMap
  /\ handlers = {}
  /\ nextMsg = 1
  /\ issued = 0
  /\ client = NoClient
  /\ last = Step("join-chat", 2, "B", "d", "ok", 0)

\* InitChat after sockets 1 and 2 joined the room of the group chat, A sent
\* message 1 to it and B reacted to that message with "up"
InitMessage ==
  /\ sockState = [s \in Sockets |-> IF s \in FirstDevices THEN "open" ELSE "new"]
  /\ connectedUsers = [u \in Users |-> CHOOSE s \in FirstDevices : TokenUser(s) = u]
  /\ userSockets = [s \in FirstDevices |-> TokenUser(s)]
  /\ userChats = [u \in Users |-> IF u \in {"A", "B"} THEN {"g"} ELSE {}]
  /\ rooms = [s \in Sockets |-> IF s \in {1, 2} THEN {"g"} ELSE {}]
  /\ inbox = [s \in Sockets |->
                IF s = 1 THEN <<Event("user-joined-chat", "g", "B", 0, {}, ""),
                                Event("new-message", "g", "A", 1, {}, ""),
                                Event("message-delivered", "g", NoUser, 1, {}, ""),
                                Event("message-reaction", "g", "B", 1, {}, "up")>>
                ELSE IF s = 2 THEN <<Event("new-message", "g", "A", 1, {}, ""),
                                     Event("message-reaction", "g", "B", 1, {}, "up")>>
                ELSE <<>>]
  /\ userOnline = [u \in Users |-> TRUE]
  /\ chats = [c \in {"d", "g"} |->
                IF c = "d" THEN NewChat("direct", {"A", "B"}, "A")
                ELSE [NewChat("group", {"A", "B", "C"}, "A") EXCEPT
                        !.lastMessage = 1,
                        !.unreadCounts = UpdateOthers(EmptyMap, {"B", "C"})]]
  /\ messages = MapSet(EmptyMap, 1,
                       [NewMessage("g", "A", PlainContent) EXCEPT
                          !.createdAt = 1,
                          !.reactions = <<[user |-> "B", emoji |-> "up"]>>])
  /\ handlers = {}
  /\ nextMsg = 2
  /\ issued = 0
  /\ client = NoClient
  /\ last = Step("react-to-message", 2, "B", "g", "ok", 1)

\* InitMessage after A's connection sent react-to-message for message 1 with
\* "up" twice and both handlers loaded the message before either saved it
InitReacted ==
  /\ sockState = [s \in Sockets |-> IF s \in FirstDevices THEN "open" ELSE "new"]
  /\ connectedUsers = [u \in Users |-> CHOOSE s \in FirstDevices : TokenUser(s) = u]
  /\ userSockets = [s \in FirstDevices |-> TokenUser(s)]
  /\ userChats = [u \in Users |-> IF u \in {"A", "B"} THEN {"g"} ELSE {}]
  /\ rooms = [s \in Sockets |-> IF s \in {1, 2} THEN {"g"} ELSE {}]
  /\ inbox = [s \in Sockets |->
                IF s = 1 THEN <<Event("user-joined-chat", "g", "B", 0, {}, ""),
                                Event("new-message", "g", "A", 1, {}, ""),
                                Event("message-delivered", "g", NoUser, 1, {}, ""),
                                Event("message-reaction", "g", "B", 1, {}, "up"),
                                Event("message-reaction", "g", "A", 1, {}, "up"),
                                Event("message-reaction", "g", "A", 1, {}, "up")>>
                ELSE IF s = 2 THEN <<Event("new-message", "g", "A", 1, {}, ""),
                                     Event("message-reaction", "g", "B", 1, {}, "up"),
                                     Event("message-reaction", "g", "A", 1, {}, "up"),
                                     Event("message-reaction", "g", "A", 1, {}, "up")>>
                ELSE <<>>]
  /\ userOnline = [u \in Users |-> TRUE]
  /\ chats = [c \in {"d", "g"} |->
                IF c = "d" THEN NewChat("direct", {"A", "B"}, "A")
                ELSE [NewChat("group", {"A", "B", "C"}, "A") EXCEPT
                        !.lastMessage = 1,
                        !.unreadCounts = UpdateOthers(EmptyMap, {"B", "C"})]]
  /\ messages = MapSet(EmptyMap, 1,
                       [NewMessage("g", "A", PlainContent) EXCEPT
                          !.createdAt = 1,
                          !.reactions = <<[user |-> "B", emoji |-> "up"],
                                          [user |-> "A", emoji |-> "up"],
                                          [user |-> "A", emoji |-> "up"]>>])
  /\ handlers = {}
  /\ nextMsg = 2
  /\ issued = 0
  /\ client = NoClient
  /\ last = Step("react-to-message", 1, "A", "g", "ok", 1)

SendSteps ==
  \/ \E s \in Sockets, c \in ChatIds : SendMessage(s, c)
  \/ \E h \in handlers : SendSaveMessage(h)
  \/ \E h \in handlers : SendSaveChat(h)
  \/ \E h \in handlers : SendBroadcast(h)

SendFailures ==
  \/ \E h \in handlers : SendSaveMessageFail(h)
  \/ \E h \in handlers : SendSaveChatFail(h)
  \/ \E h \in handlers : SendPopulateFail(h)

MarkSteps ==
  \/ \E s \in Sockets, c \in ChatIds, ids \in SUBSET KnownMsgIds : MarkRead(s, c, ids)
  \/ \E h \in handlers : MarkUpdateMany(h)
  \/ \E h \in handlers : MarkSave(h)

ReactSteps ==
  \/ \E s \in Sockets, m \in KnownMsgIds, e \in Emojis : ReactToMessage(s, m, e)
  \/ \E h \in handlers : ReactSave(h)

RoomSteps ==
  \/ \E s \in Sockets, c \in ChatIds : JoinChat(s, c)
  \/ \E s \in Sockets, c \in ChatIds : LeaveChat(s, c)
  \/ \E by \in Users, c \in DOMAIN chats, p \in Users : RemoveParticipant(by, c, p)

\* reactions to the stored message, with save failures
NextReact ==
  \/ ReactSteps
  \/ \E h \in handlers : ReactSaveFail(h)

SpecReact == InitMessage /\ [][NextReact]_vars

\* the same, after two overlapping reacts of A
SpecReacted == InitReacted /\ [][NextReact]_vars

\* mark-read on the chats with the stored message, on a store that never fails
SpecMarks == InitMessage /\ [][MarkSteps]_vars

\* chat creation and the membership routes
NextMembership ==
  \/ \E by \in Users, ids \in ParticipantLists, type \in ChatTypes : CreateChat(by, ids, type)
  \/ \E by \in Users, c \in DOMAIN chats, p \in Users : AddParticipant(by, c, p)
  \/ \E by \in Users, c \in DOMAIN chats, p \in Users : RemoveParticipant(by, c, p)

SpecMembership == InitChat /\ [][NextMembership]_vars

\* send and mark-read on a store that never fails
NextUnread == SendSteps \/ MarkSteps

SpecUnread == InitChat /\ [][NextUnread]_vars

\* every intent, with persistence failures
NextChat ==
  \/ SendSteps \/ SendFailures
  \/ MarkSteps \/ (\E h \in handlers : MarkFail(h))
  \/ ReactSteps \/ (\E h \in handlers : ReactSaveFail(h))
  \/ RoomSteps

SpecChat == InitChat /\ [][NextChat]_vars

\* the message pipeline with its persistence failures, and joins to have receivers
NextSend ==
  \/ SendSteps \/ SendFailures
  \/ \E s \in Sockets, c \in ChatIds : JoinChat(s, c)

SpecSend == InitChat /\ [][NextSend]_vars

\* sends only, on a store that never fails
SpecSends == InitChat /\ [][SendSteps]_vars

\* send and mark-read on the direct chat, with A and B in its room, on a store
\* that never fails
NextDirect ==
  \/ \E s \in Sockets : SendMessage(s, "d")
  \/ \E h \in handlers : SendSaveMessage(h)
  \/ \E h \in handlers : SendSaveChat(h)
  \/ \E h \in handlers : SendBroadcast(h)
  \/ \E s \in Sockets, ids \in SUBSET KnownMsgIds : MarkRead(s, "d", ids)
  \/ \E h \in handlers : MarkUpdateMany(h)
  \/ \E h \in handlers : MarkSave(h)

SpecDirect == InitJoined /\ [][NextDirect]_vars

\* send and mark-read on the group chat, on a store that never fails
NextGroup ==
  \/ \E s \in Sockets : SendMessage(s, "g")
  \/ \E h \in handlers : SendSaveMessage(h)
  \/ \E h \in handlers : SendSaveChat(h)
  \/ \E h \in handlers : SendBroadcast(h)
  \/ \E s \in Sockets, ids \in SUBSET KnownMsgIds : MarkRead(s, "g", ids)
  \/ \E h \in handlers : MarkUpdateMany(h)
  \/ \E h \in handlers : MarkSave(h)

SpecGroup == InitChat /\ [][NextGroup]_vars

\* sends of any content to the chats of the store, with A and B in the room of
\* the direct chat, on a store that never fails
NextContent ==
  \/ \E s \in Sockets, c \in DOMAIN chats, content \in Contents : SendMessageWith(s, c, content)
  \/ \E h \in handlers : SendSaveMessage(h)
  \/ \E h \in handlers : SendValidationFail(h)
  \/ \E h \in handlers : SendSaveChat(h)
  \/ \E h \in handlers : SendBroadcast(h)

SpecContent == InitJoined /\ [][NextContent]_vars

\* sends only, with A and B in the room of the direct chat
SpecJoinedSends == InitJoined /\ [][SendSteps]_vars

\* join-chat and leave-chat only
NextRooms ==
  \/ \E s \in Sockets, c \in ChatIds : JoinChat(s, c)
  \/ \E s \in Sockets, c \in ChatIds : LeaveChat(s, c)

SpecRooms == InitChat /\ [][NextRooms]_vars

\* joins, leaves and disconnects, with A and B in the room of the direct chat
NextLeaving ==
  \/ \E s \in Sockets, c \in ChatIds : JoinChat(s, c)
  \/ \E s \in Sockets, c \in ChatIds : LeaveChat(s, c)
  \/ \E s \in Sockets : Disconnect(s)

SpecLeaving == InitJoined /\ [][NextLeaving]_vars

\* typing and joins, with A and B in the room of the direct chat
NextTyping ==
  \/ \E s \in Sockets, c \in ChatIds, isTyping \in BOOLEAN : Typing(s, c, isTyping)
  \/ \E s \in Sockets, c \in ChatIds : JoinChat(s, c)

SpecTyping == InitJoined /\ [][NextTyping]_vars

\* the counters: updateUnreadCount with any increment on B's counter of the
\* direct chat, and calls of the client for two chats, each started when the
\* one before it has completed
ClientIdle == client.tasks = {}

NextCounters ==
  \/ \E increment \in Increments : CallUpdateUnreadCount("d", "B", increment)
  \/ \E c \in {"d", "g"} : ClientIdle /\ createChat(c)
  \/ \E c \in {"d", "g"} : ClientIdle /\ handleIncomingMessage(c)
  \/ \E c \in {"d", "g"}, n \in 0 .. (MaxUnread + 1) : ClientIdle /\ markAsRead(c, n)
  \/ StorageSteps

SpecCounters == InitChat /\ [][NextCounters]_vars

\* connections, disconnections, joins and leaves, a second connection of A included
NextDevices ==
  \/ \E s \in Sockets : Connect(s)
  \/ \E s \in Sockets : Disconnect(s)
  \/ \E s \in Sockets, c \in DOMAIN chats : JoinChat(s, c)
  \/ \E s \in Sockets, c \in DOMAIN chats : LeaveChat(s, c)

SpecDevices == InitChat /\ [][NextDevices]_vars

\* chat-creation requests that may overlap
NextCreate ==
  \/ \E by \in Users, ids \in ParticipantLists, type \in ChatTypes :
       CreateChatArrives(by, ids, type)
  \/ \E h \in handlers : CreateChatFind(h)
  \/ \E h \in handlers : CreateChatSave(h)

SpecCreate == InitChat /\ [][NextCreate]_vars

\* incoming and sent messages of the client, their calls overlapping
NextStorage ==
  \/ \E c \in ChatIds : handleIncomingMessage(c)
  \/ \E c \in ChatIds : sendMessage(c)
  \/ StorageSteps

SpecStorage == InitChat /\ [][NextStorage]_vars

\* the calls of the provider, each started when the one before it has completed
NextProvider ==
  \/ \E c \in ChatIds : ClientIdle /\ createChat(c)
  \/ \E c \in ChatIds : ClientIdle /\ sendMessage(c)
  \/ \E c \in ChatIds : ClientIdle /\ handleIncomingMessage(c)
  \/ \E c \in ChatIds, n \in 0 .. MaxUnread : ClientIdle /\ markAsRead(c, n)
  \/ StorageSteps

SpecProvider == InitChat /\ [][NextProvider]_vars

\* the connection of the client: connect(), disconnect(), the timers of the
\* pending connects, and the unmount of the provider
NextConnection ==
  \/ connect
  \/ ConnectTimer
  \/ disconnect
  \/ Unmount

SpecConnection == InitChat /\ [][NextConnection]_vars

\* a timer that was set fires
FairConnection == SpecConnection /\ WF_vars(ConnectTimer)

\* the four authorized intents against the chats of the store, and removal from
\* the group
NextAuth ==
  \/ \E s \in Sockets, c \in DOMAIN chats : JoinChat(s, c)
  \/ \E s \in Sockets, c \in DOMAIN chats : SendMessage(s, c)
  \/ \E h \in handlers : SendSaveMessage(h)
  \/ \E h \in handlers : SendSaveChat(h)
  \/ \E h \in handlers : SendBroadcast(h)
  \/ \E s \in Sockets, c \in DOMAIN chats, ids \in SUBSET KnownMsgIds : MarkRead(s, c, ids)
  \/ \E h \in handlers : MarkUpdateMany(h)
  \/ \E h \in handlers : MarkSave(h)
  \/ ReactSteps
  \/ \E by \in Users, c \in DOMAIN chats, p \in Users : RemoveParticipant(by, c, p)

SpecAuth == InitChat /\ [][NextAuth]_vars

----------------------------------------------------------------------------
(* Observations used by the properties *)

HasOpenSocket(u) == \E s \in Sockets : sockState[s] = "open" /\ TokenUser(s) = u

MessagesOf(c) == {m \in DOMAIN messages : messages[m].chatId = c}

\* some event of the kinds evs is in some inbox, naming message m
Observed(evs, m) ==
  \E s \in Sockets : \E i \in 1 .. Len(inbox[s]) :
    inbox[s][i].ev \in evs /\ inbox[s][i].msg = m

\* this step delivered exactly one event, to socket s, and it is an error
OnlyAnErrorTo(s) ==
  /\ \A t \in Sockets \ {s} : inbox'[t] = inbox[t]
  /\ Len(inbox'[s]) = Len(inbox[s]) + 1
  /\ SubSeq(inbox'[s], 1, Len(inbox[s])) = inbox[s]
  /\ inbox'[s][Len(inbox'[s])].ev = "error"

FailedSend == {"failed-message", "failed-chat", "failed-populate"}

----------------------------------------------------------------------------
(* Unread counters *)

(* C1: whenever no handler is in flight, for every chat and every participant u
   the stored unreadCounts[u] is the number of the chat's messages that u did
   not send and whose readBy has no entry of u *)
UnreadCountMatchesUnreadMessages ==
  Quiescent =>
    \A c \in DOMAIN chats : \A u \in chats[c].participants :
      GetUnread(chats[c].unreadCounts, u) = Cardinality(findUnreadForUser(c, u))

(* C2: once two sends by different senders to one chat have both completed (and
   they are the chat's only messages), each participant other than the two
   senders has unreadCount 2 and each of the two senders has unreadCount 1 *)
ConcurrentSendsLoseNoIncrement ==
  Quiescent =>
    \A c \in DOMAIN chats : \A m1, m2 \in MessagesOf(c) :
      (/\ messages[m1].sender # messages[m2].sender
       /\ MessagesOf(c) = {m1, m2})
      => \A p \in chats[c].participants :
           GetUnread(chats[c].unreadCounts, p) =
             IF p \in {messages[m1].sender, messages[m2].sender} THEN 1 ELSE 2

----------------------------------------------------------------------------
(* The message pipeline and persistence errors *)

\* an event about a message is in an inbox only if the message is stored
FanOutOnlyOfStored ==
  \A s \in Sockets : \A i \in 1 .. Len(inbox[s]) :
    inbox[s][i].ev \in {"new-message", "message-delivered"}
      => inbox[s][i].msg \in DOMAIN messages

\* the step in which the save of a message is rejected
FailedSaveReachesSenderOnly ==
  last'.outcome = "failed-message" =>
    /\ OnlyAnErrorTo(last'.sock)
    /\ last'.msg \notin DOMAIN messages'
    /\ chats' = chats

(* C3: an event about message m (new-message, message-delivered) is in an inbox
   only if m is stored; and the step in which saving m fails stores nothing,
   delivers one error event to the sender and nothing to any other connection *)
PersistBeforeFanOut == []FanOutOnlyOfStored /\ [][FailedSaveReachesSenderOnly]_vars

\* the save of a message failed while another connection was in the chat's room
PersistBeforeFanOutWitness ==
  /\ last.outcome = "failed-message"
  /\ InRoom(last.chat) \ {last.sock} # {}
  /\ Len(inbox[last.sock]) > 0

(* C4: after a send ended with a persistence error, at whichever step, its
   message is not stored, the chat's lastMessage is not that message, nobody
   was sent new-message for it, and the sender's last event is an error *)
PersistenceErrorAbortsSend ==
  last.outcome \in FailedSend =>
    /\ last.msg \notin DOMAIN messages
    /\ chats[last.chat].lastMessage # last.msg
    /\ ~Observed({"new-message"}, last.msg)
    /\ Len(inbox[last.sock]) > 0
    /\ inbox[last.sock][Len(inbox[last.sock])].ev = "error"

\* the positions in the inbox of s of the events that carry message m itself:
\* new-message has the populated document, message-delivered only its id
FullMessageEvents(s, m) ==
  {i \in 1 .. Len(inbox[s]) : inbox[s][i].ev = "new-message" /\ inbox[s][i].msg = m}

(* C15: when a send-message has completed successfully, the sender's connection
   has received the message itself exactly once, whether or not it is in the
   chat's room *)
SenderSeesOwnMessageOnce ==
  (last.op = "send-message" /\ last.outcome = "ok") =>
    Cardinality(FullMessageEvents(last.sock, last.msg)) = 1

\* the step that message.save() of a send takes when its content is empty,
\* whitespace only or longer than the maximum length
InvalidContentStep ==
  \A h \in handlers :
    (/\ h.op = "send-message" /\ h.pc = "saveMessage"
     /\ RouteRejects(h.content)
     /\ h \notin handlers')
    => /\ handlers' = handlers \ {h}
       /\ UNCHANGED store
       /\ OnlyAnErrorTo(h.sock)

(* C19: a send-message whose content is empty, whitespace only or longer than
   1000 characters stores no message, changes no unreadCount and no
   lastMessage, delivers new-message to nobody and delivers one error event, to
   the sender only *)
InvalidContentIsRejected == [][InvalidContentStep]_vars

\* the position of the first new-message event for m in the inbox of s, 0 if none
FirstNewMessage(s, m) ==
  IF FullMessageEvents(s, m) = {} THEN 0
  ELSE CHOOSE i \in FullMessageEvents(s, m) : \A j \in FullMessageEvents(s, m) : i <= j

\* m1 was issued before m2 by the same connection to the same chat: the ids are
\* handed out in the order the events are handled
IssuedInOrder(m1, m2) ==
  /\ m1 < m2
  /\ messages[m1].sender = messages[m2].sender
  /\ messages[m1].chatId = messages[m2].chatId

(* C16: if one connection issued send-message for m1 and then for m2 in one chat,
   every connection that has received new-message for both received
   new-message(m1) before new-message(m2) *)
SendsOfOneConnectionArriveInOrder ==
  \A m1, m2 \in DOMAIN messages :
    IssuedInOrder(m1, m2) =>
      \A s \in Sockets :
        (FirstNewMessage(s, m1) # 0 /\ FirstNewMessage(s, m2) # 0) =>
          FirstNewMessage(s, m1) < FirstNewMessage(s, m2)

----------------------------------------------------------------------------
(* Authorization and rejections *)

\* this step is the arrival of an intent whose user is not in the participants
\* of the chat it is against (for a reaction: the chat of the message)
IssuedByNonParticipant ==
  /\ issued' = issued + 1
  /\ last'.op \in {"join-chat", "send-message", "mark-read", "react-to-message"}
  /\ last'.chat \in DOMAIN chats
  /\ last'.user \notin chats[last'.chat].participants

NonParticipantStep ==
  IssuedByNonParticipant =>
    /\ UNCHANGED <<store, rooms, handlers, nextMsg>>
    /\ \A t \in Sockets \ {last'.sock} : inbox'[t] = inbox[t]

(* C5: a join-chat, send-message, mark-read or react-to-message issued by a
   connection whose user is not a participant of the chat changes nothing that
   is persisted, starts no handler, leaves the rooms as they are and delivers
   nothing to any other connection *)
NonParticipantHasNoEffect == [][NonParticipantStep]_vars

\* a non-participant reacted to a stored message of the chat and was denied
NonParticipantWitness ==
  /\ last.op = "react-to-message"
  /\ last.outcome = "denied"
  /\ last.user \notin chats[last.chat].participants
  /\ MessagesOf(last.chat) # {}

RejectionStep == last'.outcome \in {"denied", "notfound"} => OnlyAnErrorTo(last'.sock)

(* C6: every step that rejects an intent as denied or not found delivers exactly
   one error event, to the connection that issued it, and nothing to the others *)
RejectionsReachTheOriginator == [][RejectionStep]_vars

\* every chat of type direct has a participant set of exactly two members
DirectPairs ==
  \A c \in DOMAIN chats : chats[c].type = "direct" => Cardinality(chats[c].participants) = 2

\* a request to create a direct chat succeeds exactly when the participants it
\* names, with the caller, are two users, and a rejected one creates nothing
DirectCreationStep ==
  \A by \in Users, ids \in ParticipantLists :
    CreateChat(by, ids, "direct") =>
      /\ last'.outcome \in {"created", "exists"}
           <=> Cardinality(Range(ids) \cup {by}) = 2
      /\ last'.outcome = "invalid" => chats' = chats

(* C17: creating a direct chat succeeds when the resulting participant set has
   exactly 2 members and is rejected, with nothing created, for any other
   count; and in every state reachable through creation, add-participant,
   remove-participant and leave, every direct chat has exactly two
   participants *)
DirectChatsHaveTwoParticipants == []DirectPairs /\ [][DirectCreationStep]_vars

(* C7: every connection in room chat:C belongs to a user who is in
   participants(C) *)
RoomMembersAreParticipants ==
  \A s \in Sockets : \A c \in rooms[s] :
    sockState[s] = "open" => c \in DOMAIN chats /\ TokenUser(s) \in chats[c].participants

----------------------------------------------------------------------------
(* Reactions *)

\* the positions of the reaction entries of user u
EntriesOf(reactions, u) == {i \in 1 .. Len(reactions) : reactions[i].user = u}

\* the reaction entries of user u, in their order
ReactionsBy(reactions, u) == SelectSeq(reactions, LAMBDA r : r.user = u)

\* the step that completes a react handler which loaded the message as it is
\* stored now, that is, after every earlier react on it had completed
SequentialReactStep ==
  \A h \in handlers \ handlers' :
    (/\ h.op = "react-to-message"
     /\ last'.outcome = "ok"
     /\ h.reactions = messages[h.msg].reactions)
    => /\ ReactionsBy(messages'[h.msg].reactions, h.user)
            = <<[user |-> h.user, emoji |-> h.emoji]>>
       /\ \A v \in Users \ {h.user} :
            ReactionsBy(messages'[h.msg].reactions, v)
              = ReactionsBy(messages[h.msg].reactions, v)

(* C11: a react by u on any message m with emoji e, executed after the earlier
   reacts on m have completed, leaves exactly one reaction entry of u on m,
   with emoji e, and every other user's entries on m as they were; so e1 then
   e2, one after the other, leave one entry, with e2 *)
ReactIsUpsert == [][SequentialReactStep]_vars

(* C12: in every reachable state, whatever the interleaving of the react
   handlers, the stored reactions of a message hold at most one entry of any
   one user *)
OneReactionPerUser ==
  \A m \in DOMAIN messages : \A u \in Users :
    Cardinality(EntriesOf(messages[m].reactions, u)) <= 1

----------------------------------------------------------------------------
(* Read receipts *)

\* the mark-read handler that this step takes from program point pc
MarkHandlerAt(h, pc) ==
  /\ h \in handlers /\ h \notin handlers'
  /\ h.op = "mark-read" /\ h.pc = pc
  /\ last'.op = "mark-read" /\ last'.outcome \in {"updated", "ok"}

\* a mark-read that runs alone: a message that already holds a readBy entry of
\* the caller is left as it is, and a counter that is 0 stays 0
RepeatedMarkStep ==
  \A h \in handlers :
    handlers = {h} =>
      /\ MarkHandlerAt(h, "updateMany") =>
           \A m \in DOMAIN messages :
             messages[m].readBy[h.user] > 0 => messages'[m] = messages[m]
      /\ MarkHandlerAt(h, "save") =>
           (GetUnread(chats[h.chat].unreadCounts, h.user) = 0
              => GetUnread(chats'[h.chat].unreadCounts, h.user) = 0)

(* C13: mark-read applied by u to messages it has already marked read changes
   nothing: every such message keeps its one readBy entry of u (no second one
   is added) and u's unreadCount stays what the first application left *)
MarkReadIsIdempotent == [][RepeatedMarkStep]_vars

\* the updateMany of mark-read(C, ids) by u adds u to readBy(m) only for m in
\* ids with m.chatId = C and m.sender # u, changes nothing else of any message,
\* and no event is delivered
MarkExcludesStep ==
  \A h \in handlers :
    MarkHandlerAt(h, "updateMany") =>
      /\ inbox' = inbox
      /\ \A m \in DOMAIN messages :
           messages'[m] # messages[m] =>
             /\ m \in h.ids
             /\ messages[m].chatId = h.chat
             /\ messages[m].sender # h.user
             /\ \A v \in Users \ {h.user} : messages'[m].readBy[v] = messages[m].readBy[v]

(* C14: after mark-read(C, ids) by u, u has been added to readBy(m) only for the
   messages m in ids of chat C that u did not send; the readBy of u's own
   messages and of the messages of other chats is unchanged, and no error is
   raised for such ids *)
MarkReadExcludesOwnAndForeign == [][MarkExcludesStep]_vars

\* A's send to the direct chat, the only intent so far, has completed
AfterSendOfA ==
  /\ last.op = "send-message" /\ last.outcome = "ok"
  /\ last.user = "A" /\ last.chat = "d"
  /\ issued = 1

\* after A's send, B's mark-read of A's message has completed
AfterMarkOfB ==
  /\ last.op = "mark-read" /\ last.outcome = "ok"
  /\ last.user = "B" /\ last.chat = "d"
  /\ issued = 2 /\ Quiescent
  /\ \E m \in MessagesOf("d") :
       /\ messages[m].sender = "A"
       /\ messages[m].readBy["B"] > 0
       /\ \E i \in 1 .. Len(inbox[2]) :
            inbox[2][i].ev = "new-message" /\ inbox[2][i].msg = m

(* C18: in the direct chat of A and B, both in its room and both counters 0:
   after A's send the counters are A:0, B:1 and B's connection has received
   new-message; after B then marked that message read the counters are A:0, B:0
   and A's connection has received messages-read *)
SendThenMarkReadScenario ==
  /\ AfterSendOfA =>
       /\ GetUnread(chats["d"].unreadCounts, "A") = 0
       /\ GetUnread(chats["d"].unreadCounts, "B") = 1
       /\ \E i \in 1 .. Len(inbox[2]) :
            inbox[2][i].ev = "new-message" /\ inbox[2][i].msg = last.msg
  /\ AfterMarkOfB =>
       /\ GetUnread(chats["d"].unreadCounts, "A") = 0
       /\ GetUnread(chats["d"].unreadCounts, "B") = 0
       /\ \E i \in 1 .. Len(inbox[1]) :
            /\ inbox[1][i].ev = "messages-read" /\ inbox[1][i].user = "B"
            /\ inbox[1][i].chat = "d" /\ MessagesOf("d") \subseteq inbox[1][i].ids

\* the scenario has run to its end, the send having completed (its
\* acknowledgment is in A's inbox) before B's messages-read arrived
SendThenMarkReadWitness ==
  /\ AfterMarkOfB
  /\ MessagesOf("d") # {}
  /\ inbox[1][Len(inbox[1])].ev = "messages-read"
  /\ inbox[1][Len(inbox[1]) - 1].ev = "message-delivered"

----------------------------------------------------------------------------
(* Presence *)

\* a rejected connection is in no registry map and in no room, and nothing was
\* delivered to it
RejectedIsUnregistered ==
  \A s \in Sockets :
    sockState[s] = "rejected" =>
      /\ ~MapHas(userSockets, s)
      /\ \A u \in DOMAIN connectedUsers : connectedUsers[u] # s
      /\ rooms[s] = {}
      /\ inbox[s] = <<>>

\* the only step of a rejected connection is its rejection, which changes
\* neither the registry nor anything persisted nor any inbox
RejectedStep ==
  (last'.sock \in Sockets /\ sockState'[last'.sock] = "rejected") =>
    /\ last'.op = "connection" /\ last'.outcome = "rejected"
    /\ sockState[last'.sock] = "new"
    /\ UNCHANGED <<registry, store, rooms, inbox, handlers>>

(* C20: a connection attempt with a missing or unverifiable credential is
   rejected: it never appears in connectedUsers, userSockets or userChats, it
   never changes a user's persisted online status, and no event of it is ever
   handled *)
UnauthenticatedNeverRegistered == []RejectedIsUnregistered /\ [][RejectedStep]_vars

\* a connection was rejected while another user was connected and online
UnauthenticatedWitness ==
  /\ last.op = "connection" /\ last.outcome = "rejected"
  /\ sockState[last.sock] = "rejected"
  /\ \E t \in Sockets : sockState[t] = "open" /\ userOnline[TokenUser(t)]
  /\ ~userOnline[TokenUser(last.sock)]

(* C8: isUserOnline(u), and the isOnline flag persisted for u, are true exactly
   when some connection of u is open *)
OnlineIffSomeConnectionOpen ==
  \A u \in Users :
    /\ isUserOnline(u) <=> HasOpenSocket(u)
    /\ userOnline[u] <=> HasOpenSocket(u)

DisconnectOfNonLast ==
  (/\ last'.op = "disconnect"
   /\ \E t \in Sockets \ {last'.sock} : sockState[t] = "open" /\ TokenUser(t) = last'.user)
  => /\ inbox' = inbox
     /\ userOnline'[last'.user] = userOnline[last'.user]

(* C9: a disconnect of a connection whose user has another open connection emits
   no event and leaves the user's persisted isOnline as it is *)
OfflineOnlyForLastConnection == [][DisconnectOfNonLast]_vars

StatusOnlineEvent(e, u) ==
  /\ e.ev \in {"user-status-changed", "user-status-update", "user-connected"}
  /\ e.user = u
  /\ e.info = "online"

ConnectionStep ==
  last'.op = "connection" =>
    IF HasOpenSocket(last'.user)
    THEN inbox' = inbox
    ELSE \A t \in Sockets \ {last'.sock} :
           sockState[t] = "open" =>
             /\ Len(inbox'[t]) = Len(inbox[t]) + 1
             /\ StatusOnlineEvent(inbox'[t][Len(inbox'[t])], last'.user)

(* C10: the connection of a user who had no open connection delivers a status
   event naming that user as online to every other open connection; a further
   connection of a user delivers nothing *)
OnlineOnFirstConnection == [][ConnectionStep]_vars

----------------------------------------------------------------------------
(* Effect and frame of the handlers *)

\* the step in which a suspended handler h moves on with the given outcome
HandlerStep(h, outcome) ==
  /\ h \in handlers /\ h \notin handlers'
  /\ last'.op = h.op /\ last'.sock = h.sock /\ last'.chat = h.chat /\ last'.msg = h.msg
  /\ last'.outcome = outcome

OtherChatsUnchanged(c) == \A k \in DOMAIN chats \ {c} : chats'[k] = chats[k]

SendEffectStep ==
  \A h \in handlers :
    /\ (h.op = "send-message" /\ HandlerStep(h, "saved")) =>
         /\ chats' = chats
         /\ \A m \in DOMAIN messages : messages'[m] = messages[m]
    /\ (h.op = "send-message" /\ HandlerStep(h, "chat-saved")) =>
         /\ \A p \in chats[h.chat].participants \ {h.user} :
              GetUnread(chats'[h.chat].unreadCounts, p)
                = GetUnread(chats[h.chat].unreadCounts, p) + 1
         /\ GetUnread(chats'[h.chat].unreadCounts, h.user)
              = GetUnread(chats[h.chat].unreadCounts, h.user)
         /\ chats'[h.chat].lastMessage = h.msg
         /\ OtherChatsUnchanged(h.chat)
         /\ messages' = messages

(* C21: a send that succeeds raises the stored unread counter of every
   participant but the sender by exactly 1, leaves the sender's counter as it
   is, makes the new message the chat's lastMessage, and changes no other chat
   and no message that existed *)
SendRaisesOthersByOne == [][SendEffectStep]_vars

ResetEffectStep ==
  \A h \in handlers :
    (h.op = "mark-read" /\ HandlerStep(h, "ok")) =>
      /\ GetUnread(chats'[h.chat].unreadCounts, h.user) = 0
      /\ \A p \in Users \ {h.user} :
           GetUnread(chats'[h.chat].unreadCounts, p) = GetUnread(chats[h.chat].unreadCounts, p)
      /\ chats'[h.chat].lastMessage = chats[h.chat].lastMessage
      /\ OtherChatsUnchanged(h.chat)

(* C22: a mark-read that succeeds sets the caller's stored unread counter of the
   chat to 0 whatever ids it names, and leaves the counters of the other
   participants and the other chats as they are in the store, also when a send
   of another participant was saved after the mark-read handler loaded the chat *)
ResetTouchesOnlyTheCaller == [][ResetEffectStep]_vars

\* B's mark-read on the group chat completed while A's send was in flight with
\* its counters already saved: C's increment is in the store
ResetTouchesOnlyTheCallerWitness ==
  /\ last.op = "mark-read" /\ last.outcome = "ok" /\ last.user = "B" /\ last.chat = "g"
  /\ \E h \in handlers : h.op = "send-message" /\ h.user = "A" /\ h.chat = "g"
                         /\ h.pc = "populate"
  /\ GetUnread(chats["g"].unreadCounts, "C") = 1
  /\ GetUnread(chats["g"].unreadCounts, "B") = 0

\* the message of chat c that was inserted last
PersistedLast(c) ==
  CHOOSE m \in MessagesOf(c) :
    \A n \in MessagesOf(c) : messages[n].createdAt <= messages[m].createdAt

(* C23: once the send handlers of a chat have all completed, the chat's
   lastMessage is the message of the chat that was persisted last *)
LastMessageIsPersistedLast ==
  \A c \in DOMAIN chats :
    (Quiescent /\ MessagesOf(c) # {}) => chats[c].lastMessage = PersistedLast(c)

----------------------------------------------------------------------------
(* Rooms: leaving, disconnecting, typing *)

\* the inbox of t grew by exactly the event e in this step
Received(t, e) == inbox'[t] = Append(inbox[t], e)

LeaveStep ==
  \A s \in Sockets, c \in ChatIds :
    (last'.op = "leave-chat" /\ last'.sock = s /\ last'.chat = c) =>
      IF c \in rooms[s] /\ IsParticipant(c, TokenUser(s))
      THEN /\ c \notin rooms'[s]
           /\ inbox'[s] = inbox[s]
           /\ \A t \in InRoom(c) \ {s} :
                Received(t, Event("user-left-chat", c, TokenUser(s), 0, {}, ""))
      ELSE inbox' = inbox

(* C24: a leave-chat from a connection subscribed to the chat ends the
   subscription and tells the remaining subscribers, not the leaver; a leave-chat
   from a connection that is not subscribed, or whose user is no participant,
   delivers no event to anybody *)
LeaveNotifiesOnlyForSubscribers == [][LeaveStep]_vars

\* some event delivered to t in this step is of kind ev for chat c
NewEvent(t, ev, c) ==
  \E i \in (Len(inbox[t]) + 1) .. Len(inbox'[t]) :
    inbox'[t][i].ev = ev /\ inbox'[t][i].chat = c

MarkFanOutStep ==
  \A h \in handlers :
    /\ (h.op = "mark-read" /\ HandlerStep(h, "ok")) =>
         /\ \A t \in InRoom(h.chat) \ {h.sock} :
              \E i \in (Len(inbox[t]) + 1) .. Len(inbox'[t]) :
                inbox'[t][i] = Event("messages-read", h.chat, h.user, 0, h.ids, "")
         /\ ~NewEvent(h.sock, "messages-read", h.chat)
         /\ \A t \in InRoom(h.chat) : NewEvent(t, "chat-updated", h.chat)
         /\ GetUnread(chats'[h.chat].unreadCounts, h.user) = 0
    /\ (h.op = "mark-read" /\ h \notin handlers' /\ last'.outcome # "ok") =>
         inbox' = inbox

(* C25: a mark-read that succeeds delivers messages-read, with the user, the
   chat and the ids, to every other connection in the room and not to the
   caller, and delivers a chat-updated event with the unread counters to the
   room, both in the step that has persisted the readBy entries and the reset
   of the counter and in no step before it *)
MarkReadTellsTheRoom == [][MarkFanOutStep]_vars

DisconnectStep ==
  \A s \in Sockets :
    (last'.op = "disconnect" /\ last'.sock = s) =>
      /\ \A t \in Sockets : \A i \in (Len(inbox[t]) + 1) .. Len(inbox'[t]) :
           inbox'[t][i].ev # "user-left-chat"
      /\ \A t \in Sockets : Len(inbox'[t]) <= Len(inbox[t]) + 1
      /\ inbox'[s] = inbox[s]
      /\ rooms'[s] = {}
      /\ ~MapHas(userSockets', s)
      /\ \A u \in DOMAIN connectedUsers' : connectedUsers'[u] # s
      /\ ~MapHas(userChats', TokenUser(s))

ClosedStep ==
  \A s \in Sockets : sockState[s] = "closed" => (inbox'[s] = inbox[s] /\ rooms'[s] = {})

(* C26: the disconnect of a connection that had joined chats delivers no
   user-left-chat event, delivers at most one event (user-disconnected) to any
   other connection, removes the connection from its rooms and its entries from
   the registry and the joined-chat map, and the closed connection receives
   nothing from then on *)
DisconnectIsSilentLeave == [][DisconnectStep /\ ClosedStep]_vars

\* B's connection disconnected while A's connection was with it in the room of
\* the direct chat: A was told of the disconnect only
DisconnectIsSilentLeaveWitness ==
  /\ last.op = "disconnect" /\ last.sock = 2
  /\ "d" \in rooms[1] /\ rooms[2] = {}
  /\ Len(inbox[1]) = 2
  /\ inbox[1][1] = Event("user-joined-chat", "d", "B", 0, {}, "")
  /\ inbox[1][2] = Event("user-disconnected", NoChat, "B", 0, {}, "")

TypingStep ==
  \A s \in Sockets, c \in ChatIds :
    (last'.op = "typing" /\ last'.sock = s /\ last'.chat = c) =>
      /\ connectedUsers' = connectedUsers /\ userSockets' = userSockets
      /\ userChats' = userChats /\ rooms' = rooms /\ sockState' = sockState
      /\ userOnline' = userOnline /\ chats' = chats /\ messages' = messages
      /\ IF IsParticipant(c, TokenUser(s))
         THEN /\ \E info \in {"on", "off"} :
                   \A t \in InRoom(c) \ {s} :
                     Received(t, Event("user-typing", c, TokenUser(s), 0, {}, info))
              /\ \A t \in Sockets \ (InRoom(c) \ {s}) : inbox'[t] = inbox[t]
         ELSE inbox' = inbox

(* C27: a typing event of a participant changes nothing in the store, the
   registry or the rooms and delivers user-typing to every other connection in
   the room of the chat, never to the sender's connection; a typing event of a
   non-participant, or for a chat that does not exist, delivers nothing to
   anybody, the sender included *)
TypingIsRelayOnly == [][TypingStep]_vars

\* A, in the room of the direct chat with B, sent typing: B's connection has the
\* relay, A's connection has none
TypingIsRelayOnlyWitness ==
  /\ last.op = "typing" /\ last.outcome = "ok" /\ last.sock = 1 /\ last.chat = "d"
  /\ {1, 2} \subseteq InRoom("d")
  /\ Len(inbox[2]) > 0 /\ inbox[2][Len(inbox[2])].ev = "user-typing"
  /\ inbox[2][Len(inbox[2])].user = "A"
  /\ \A i \in 1 .. Len(inbox[1]) : inbox[1][i].ev # "user-typing"

----------------------------------------------------------------------------
(* Counters *)

(* C28: no unread counter is ever negative: every value stored in a chat's
   unreadCounts, whatever increments updateUnreadCount was called with, and
   every unreadCount of a chat of the client, whatever incoming messages and
   markAsRead calls, with more ids than the count too, came before *)
UnreadNeverNegative ==
  /\ \A c \in DOMAIN chats : \A u \in DOMAIN chats[c].unreadCounts :
       chats[c].unreadCounts[u] >= 0
  /\ \A c \in DOMAIN client.chats : client.chats[c].unreadCount >= 0

\* markAsRead has just been called with more ids than the client's count of the
\* chat, and a counter of the direct chat was stored as 0
UnreadNeverNegativeWitness ==
  /\ last.op = "markAsRead" /\ last.outcome = "clamped"
  /\ client.chats[last.chat].unreadCount = 0
  /\ \E u \in DOMAIN chats["d"].unreadCounts : chats["d"].unreadCounts[u] = 0

----------------------------------------------------------------------------
(* The registry *)

(* C29: every open connection s of a user u has userSockets[s] = u and an entry
   of u in connectedUsers, and every entry of connectedUsers names a connection
   that is open, also after a user opened a second connection and closed one of
   the two *)
RegistryConsistent ==
  /\ \A s \in Sockets :
       sockState[s] = "open" =>
         /\ MapHas(userSockets, s) /\ userSockets[s] = TokenUser(s)
         /\ MapHas(connectedUsers, TokenUser(s))
  /\ \A u \in DOMAIN connectedUsers : sockState[connectedUsers[u]] = "open"

\* the chats in whose room some open connection of u is
RoomsOf(u) ==
  UNION {rooms[s] : s \in {t \in Sockets : sockState[t] = "open" /\ TokenUser(t) = u}}

(* C30: getUserChats(u) is the set of the chats in whose room some open
   connection of u is, whatever joins, leaves, further connections and
   disconnects of u came before *)
JoinedChatsMatchRooms == \A u \in Users : getUserChats(u) = RoomsOf(u)

----------------------------------------------------------------------------
(* Direct chats *)

\* the direct chats whose participants are exactly u and v
DirectChatsOf(u, v) ==
  {c \in DOMAIN chats : chats[c].type = "direct" /\ chats[c].participants = {u, v}}

OneDirectChatPerPair ==
  \A u \in Users, v \in Users : u # v => Cardinality(DirectChatsOf(u, v)) <= 1

ExistingIsReturned ==
  \A h \in handlers :
    (/\ h.op = "create-direct" /\ h.pc = "find" /\ h \notin handlers'
     /\ \E u \in Users, v \in Users :
          u # v /\ h.participants = {u, v} /\ DirectChatsOf(u, v) # {})
    => /\ last'.outcome = "exists"
       /\ chats[last'.chat].type = "direct" /\ chats[last'.chat].participants = h.participants
       /\ chats' = chats

(* C31: whatever chat-creation requests of type direct came before, and however
   they overlapped, at most one direct chat has exactly a given pair of users as
   its participants, and a request for a pair that has a direct chat returns
   that chat and creates none *)
AtMostOneDirectChatPerPair == []OneDirectChatPerPair /\ [][ExistingIsReturned]_vars

----------------------------------------------------------------------------
(* The client *)

(* C32: once the addMessage calls have all completed, every message that was
   handed to addMessage is in the stored messages of its chat, whether the
   calls were for the same chat or for different chats and however their loads
   and saves interleaved *)
StoredMessagesLoseNothing ==
  client.tasks = {} =>
    \A c \in DOMAIN client.messages :
      Range(client.messages[c]) \subseteq Range(MessagesIn(client.storedMessages, c))

(* C33: once the calls of the provider have all completed, the chat list
   written by saveChats is the chats state: the same chats, each with the same
   lastMessage and unreadCount *)
StoredChatsMatchState == client.tasks = {} => client.storedChats = client.chats

NoTrueAfterDisconnect ==
  (client.afterDisconnect /\ client'.afterDisconnect) =>
    \A i \in (Len(client.notified) + 1) .. Len(client'.notified) : ~client'.notified[i]

(* C34: if from some point on disconnect() has been called and connect() is not
   called again, then from some point on isConnected() is false for good, and in
   between no connection handler is called with true; also when disconnect()
   was called while the timer of an earlier connect() was pending *)
DisconnectedStaysDisconnected ==
  /\ (<>[]client.afterDisconnect) => (<>[](~client.socket))
  /\ [][NoTrueAfterDisconnect]_vars

----------------------------------------------------------------------------
(* The typing relay *)

\* the user-typing events for chat c caused by connection s that reached
\* connection t
TypingFanOuts(s, c, t) ==
  Cardinality({i \in 1 .. Len(inbox[t]) :
                 /\ inbox[t][i].ev = "user-typing"
                 /\ inbox[t][i].chat = c
                 /\ inbox[t][i].user = TokenUser(s)})

(* C35: the typing relay is rate-limited: a connection that emits as many
   typing events for one chat as it can within one rate window causes fewer
   user-typing fan-outs to a subscriber than it emitted events, every step of
   a behaviour lying within one window *)
TypingFanOutsBounded ==
  \A s \in Sockets, c \in ChatIds, t \in Sockets : TypingFanOuts(s, c, t) < MaxIntents

====
